---- MODULE Spec2Model ----
(***************************************************************************)
(* rkndex: the sqlite index over the git-backed archive of registry dumps  *)
(* (rkndex/gitarlog.py) and the two donors that feed the archive           *)
(* (rkndex/donor_zavod.py, rkndex/donor_che.py).                           *)
(*                                                                         *)
(* Conventions.  A Python value that may be None, and an SQL value that    *)
(* may be NULL, is a sequence of length 0 (None) or 1 (<<v>>).  A bytes    *)
(* object is a sequence of numbers 0..255; text that the code parses is a  *)
(* sequence of one-character strings.  A commit hash is the position of    *)
(* the commit on its branch (1 is the root commit of the branch).          *)
(***************************************************************************)
EXTENDS Integers, Sequences, FiniteSets, TLC

VARIABLES
    gitLog,     \* the commits of HEAD, oldest first: each names its body in CommitBodies
    git100,     \* the commits of BRANCH_100, oldest first: each is its %at text
    db,         \* the committed content of the sqlite file, one field per table
    pc,         \* per connection: where its poll_fs stands
    git_head,   \* per connection: poll_fs's local git_head
    git_100,    \* per connection: poll_fs's local git_100
    obj,        \* the connections whose GitarLog.__init__ has returned
    ret,        \* what the last call of the API returned or raised
    clock,      \* what int(time.time()) returns
    zavod_dir,  \* the zip files the page at DonorZavod's dir_url lists
    zavod_files, \* per zip file name: the file the server holds under it
    che_file,   \* the version of the file at DonorChe's file_url
    che,        \* the DonorChe object: its etag and last_modified
    handles     \* the handles a list_handles returned that the caller still holds

donorVars == <<clock, zavod_dir, zavod_files, che_file, che, handles>>

vars == <<gitLog, git100, db, pc, git_head, git_100, obj, ret, donorVars>>

None == <<>>
Some(v) == <<v>>

(***************************************************************************)
(* Bounds of the model.                                                    *)
(***************************************************************************)
MaxCommits == 2       \* commits the archive writer appends to HEAD
MaxReleases == 3      \* the same, where the writer commits releases only
MaxCommits100 == 1    \* commits the archive writer appends to BRANCH_100
MaxArchived == 1      \* releases the writer archives while DonorZavod polls
MaxTicks == 1         \* steps of the clock
MaxUploads == 3       \* times the file at DonorChe's file_url is replaced

(***************************************************************************)
(* Text conversions: int() and binascii.unhexlify().                       *)
(***************************************************************************)
HexChars == <<"0", "1", "2", "3", "4", "5", "6", "7", "8", "9",
              "a", "b", "c", "d", "e", "f">>

\* the value of each hex digit
CharVal ==
    ("0" :> 0) @@ ("1" :> 1) @@ ("2" :> 2) @@ ("3" :> 3) @@ ("4" :> 4) @@ ("5" :> 5) @@
    ("6" :> 6) @@ ("7" :> 7) @@ ("8" :> 8) @@ ("9" :> 9) @@ ("a" :> 10) @@ ("b" :> 11) @@
    ("c" :> 12) @@ ("d" :> 13) @@ ("e" :> 14) @@ ("f" :> 15)

IsHexChar(ch) == ch \in DOMAIN CharVal

IsDigit(ch) == ch \in {"0", "1", "2", "3", "4", "5", "6", "7", "8", "9"}

RECURSIVE DecVal(_)
DecVal(s) ==
    IF s = <<>> THEN 0
    ELSE 10 * DecVal(SubSeq(s, 1, Len(s) - 1)) + CharVal[s[Len(s)]]

\* int(b): an optional sign and decimal digits, ValueError otherwise
int(b) ==
    LET neg == b # <<>> /\ b[1] = "-"
        digits == IF neg THEN Tail(b) ELSE b
    IN  IF digits # <<>> /\ \A i \in 1..Len(digits) : IsDigit(digits[i])
        THEN [ok |-> TRUE, v |-> IF neg THEN 0 - DecVal(digits) ELSE DecVal(digits)]
        ELSE [ok |-> FALSE, v |-> 0]

\* binascii.unhexlify(b): two hex digits a byte, binascii.Error otherwise
unhexlify(b) ==
    IF Len(b) % 2 = 0 /\ \A i \in 1..Len(b) : IsHexChar(b[i])
    THEN [ok |-> TRUE,
          v |-> [i \in 1..(Len(b) \div 2) |->
                    16 * CharVal[b[2 * i - 1]] + CharVal[b[2 * i]]]]
    ELSE [ok |-> FALSE, v |-> <<>>]

(***************************************************************************)
(* gitarlog.py: constants of insert_up_to and the schema of create_table.  *)
(***************************************************************************)
\* rkndex/const.py: the timestamp the registry writes for an absent field
RKN_EPOCH == -1

public_columns ==
    {"update_time", "update_time_urgently", "signing_time", "xml_mtime", "sig_mtime",
     "xml_md5", "sig_md5", "xml_sha1", "sig_sha1",
     "xml_sha256", "sig_sha256", "xml_sha512", "sig_sha512"}

times_map ==
    ("updateTime" :> "update_time") @@
    ("updateTimeUrgently" :> "update_time_urgently") @@
    ("signingTime" :> "signing_time") @@
    ("dump.xml mtime" :> "xml_mtime") @@
    ("dump.xml.sig mtime" :> "sig_mtime")

fname_map == ("dump.xml" :> "xml") @@ ("dump.xml.sig" :> "sig")

\* a.lower() for the digest names insert_up_to accepts
lower == ("MD5" :> "md5") @@ ("SHA1" :> "sha1") @@ ("GIT" :> "git") @@
         ("SHA256" :> "sha256") @@ ("SHA512" :> "sha512")

row_keys ==
    {"update_time", "update_time_urgently", "signing_time", "xml_mtime", "sig_mtime",
     "xml_md5", "sig_md5", "xml_sha1", "sig_sha1", "xml_git", "sig_git",
     "xml_sha256", "sig_sha256", "xml_sha512", "sig_sha512"}

\* dict.fromkeys(row_keys)
EmptyRow == [k \in row_keys |-> None]

\* the columns of log that create_table declares without NOT NULL
NullableColumns == {"update_time_urgently", "xml_mtime", "sig_mtime"}

\* a log whose only unique column is xml_sha1
UniqueSha1Only == {"xml_sha1"}

\* the columns of log under a UNIQUE constraint or a unique index
UniqueColumns == {"xml_sha1", "xml_sha256"}

\* the sqlite file once GitarLog, DonorZavod and DonorChe have each run their
\* create_table: every table empty but che, which holds its one row (an etag made
\* of os.urandom and the LAST_MODIFIED_EPOCH of rkndex/const.py)
EmptyDb ==
    [head |-> <<>>, main100 |-> <<>>, log |-> <<>>, log100 |-> <<>>,
     zavod |-> <<>>,
     che |-> << [etag |-> "urandom", last_modified |-> "LAST_MODIFIED_EPOCH",
                 xml_sha256 |-> None] >>]

(***************************************************************************)
(* The git repository, as the two `git` subprocesses show it.              *)
(***************************************************************************)
\* a hex digest of len bytes, all zero but the last, which is n < 16
Hex(len, n) == [i \in 1..(2 * len) |-> IF i = 2 * len THEN HexChars[n + 1] ELSE "0"]

\* the body the archive writer gives the commit of one release: five timestamp
\* lines and the five digests of dump.xml (from x, its SHA256 from x256) and of
\* dump.xml.sig (from s)
Release(ut, utu, st, x, x256, s) ==
    << <<"ts", ut, "updateTime">>,
       <<"ts", utu, "updateTimeUrgently">>,
       <<"ts", st, "signingTime">>,
       <<"ts", st, "dump.xml mtime">>,
       <<"ts", <<"-", "1">>, "dump.xml.sig mtime">>,
       <<"MD5", Hex(16, x), "dump.xml">>,
       <<"MD5", Hex(16, s), "dump.xml.sig">>,
       <<"SHA1", Hex(20, x), "dump.xml">>,
       <<"SHA1", Hex(20, s), "dump.xml.sig">>,
       <<"GIT", Hex(20, x), "dump.xml">>,
       <<"GIT", Hex(20, s), "dump.xml.sig">>,
       <<"SHA256", Hex(32, x256), "dump.xml">>,
       <<"SHA256", Hex(32, s), "dump.xml.sig">>,
       <<"SHA512", Hex(64, x), "dump.xml">>,
       <<"SHA512", Hex(64, s), "dump.xml.sig">> >>

\* the commit bodies the model draws from.  1: no body (the first commit);
\* 2-4: releases; 5: a release whose SHA256 repeats release 2; 6: a line of
\* three words that is neither a timestamp nor a digest; 7: a line of one word;
\* 8: a release whose SHA1 repeats release 2
CommitBodies ==
    << <<>>,
       Release(<<"2">>, <<"-", "1">>, <<"2">>, 1, 1, 2),
       Release(<<"2">>, <<"3">>, <<"1">>, 2, 2, 1),
       Release(<<"1">>, <<"-", "1">>, <<"1">>, 3, 3, 1),
       Release(<<"3">>, <<"-", "1">>, <<"3">>, 4, 1, 1),
       << <<"Merge", <<"b", "r">>, "branch">> >>,
       << <<"WIP">> >>,
       Release(<<"3">>, <<"-", "1">>, <<"3">>, 1, 5, 1) >>

\* the bodies that are releases with digests of their own
ReleaseBodies == {2, 3, 4}

\* the three parts of the line '. . .' that the log format puts after each body
Sentinel == <<".", <<".">>, ".">>

\* the line b'\n': no part at all
BlankLine == <<>>

\* git rev-parse <branch>: the tip of the branch
git_rev_parse(branch) == Len(branch)

\* the commits of the revision range db_head..uptohead (or of uptohead alone),
\* newest first, as git log lists them
RevList(db_head, uptohead) ==
    LET from == IF db_head = None THEN 0 ELSE db_head[1]
        n == IF uptohead > from THEN uptohead - from ELSE 0
    IN  [i \in 1..n |-> uptohead + 1 - i]

RECURSIVE Flatten(_)
Flatten(ss) == IF ss = <<>> THEN <<>> ELSE Head(ss) \o Flatten(Tail(ss))

\* stdout of git log --format='tformat:%b%n. . .' <range>
GitLogBodies(db_head, uptohead) ==
    LET revs == RevList(db_head, uptohead)
    IN  Flatten([i \in 1..Len(revs) |->
                    CommitBodies[gitLog[revs[i]]] \o <<BlankLine, Sentinel>>])

\* stdout of git log --format='format:%at' <range>
GitLogAuthorTimes(db_head, uptohead) ==
    LET revs == RevList(db_head, uptohead)
    IN  [i \in 1..Len(revs) |-> git100[revs[i]]]

(***************************************************************************)
(* GitarLog: the statements of one poll_fs transaction.  A transaction     *)
(* state is [db, raised]: the uncommitted content and whether an exception *)
(* is propagating.                                                         *)
(***************************************************************************)
\* INSERT OR REPLACE INTO log: a UNIQUE conflict deletes the rows it meets
InsertOrReplaceLog(log, row) ==
    IF \E k \in row_keys \ NullableColumns : row[k] = None
    THEN [ok |-> FALSE, log |-> log]
    ELSE LET Kept(r) == \A k \in UniqueColumns : r[k] # row[k]
         IN  [ok |-> TRUE, log |-> Append(SelectSeq(log, Kept), row)]

\* INSERT INTO log VALUES (...): the NOT NULL and the UNIQUE constraints
InsertLog(log, row) ==
    IF \/ \E k \in row_keys \ NullableColumns : row[k] = None
       \/ \E i \in 1..Len(log) : \E k \in UniqueColumns : log[i][k] = row[k]
    THEN [ok |-> FALSE, log |-> log]
    ELSE [ok |-> TRUE, log |-> Append(log, row)]

\* one pass of the loop `for line in proc.stdout` of insert_up_to;
\* st is [row, log, raised]
InsertUpToLine(st, line) ==
    IF Len(line) = 0 THEN st
    ELSE IF Len(line) # 3 THEN [st EXCEPT !.raised = TRUE]
    ELSE
        LET a == line[1]
            b == line[2]
            c == line[3]
        IN  IF c \in DOMAIN times_map THEN
                LET v == int(b)
                IN  IF ~v.ok THEN [st EXCEPT !.raised = TRUE]
                    ELSE [st EXCEPT !.row[times_map[c]] =
                                IF v.v = RKN_EPOCH THEN None ELSE Some(v.v)]
            ELSE IF a \in {"MD5", "SHA1", "GIT", "SHA256", "SHA512"} THEN
                LET v == unhexlify(b)
                IN  IF ~v.ok \/ c \notin DOMAIN fname_map
                    THEN [st EXCEPT !.raised = TRUE]
                    ELSE [st EXCEPT !.row[fname_map[c] \o "_" \o lower[a]] = Some(v.v)]
            ELSE IF a = "." /\ b = <<".">> /\ c = "." THEN
                IF st.row # EmptyRow THEN
                    LET ins == InsertLog(st.log, st.row)
                    IN  IF ins.ok
                        THEN [st EXCEPT !.log = ins.log, !.row = EmptyRow]
                        ELSE [st EXCEPT !.raised = TRUE]
                ELSE st
            ELSE [st EXCEPT !.raised = TRUE]

\* the loop `for line in proc.stdout`, which an exception ends
RECURSIVE InsertUpToLines(_, _)
InsertUpToLines(st, lines) ==
    IF lines = <<>> THEN st
    ELSE LET next == InsertUpToLine(st, Head(lines))
         IN  IF next.raised THEN next ELSE InsertUpToLines(next, Tail(lines))

\* insert_up_to without the check of proc.wait()
InsertUpToUnchecked(tx, db_head, uptohead, returncode) ==
    LET st == InsertUpToLines([row |-> EmptyRow, log |-> tx.db.log, raised |-> FALSE],
                              GitLogBodies(db_head, uptohead))
    IN  [db |-> [tx.db EXCEPT !.log = st.log], raised |-> st.raised]

\* insert_up_to(db_head, uptohead); returncode is what proc.wait() returns
insert_up_to(tx, db_head, uptohead, returncode) ==
    LET st == InsertUpToLines([row |-> EmptyRow, log |-> tx.db.log, raised |-> FALSE],
                              GitLogBodies(db_head, uptohead))
    IN  [db |-> [tx.db EXCEPT !.log = st.log],
         raised |-> st.raised \/ returncode # 0]

RECURSIVE Insert100Lines(_, _)
Insert100Lines(st, lines) ==
    IF lines = <<>> \/ st.raised THEN st
    ELSE LET v == int(Head(lines))
         IN  IF ~v.ok THEN [st EXCEPT !.raised = TRUE]
             ELSE Insert100Lines([st EXCEPT !.log100 = Append(@, v.v)], Tail(lines))

\* insert_100_up_to(db_head, uptohead)
insert_100_up_to(tx, db_head, uptohead, returncode) ==
    LET st == Insert100Lines([log100 |-> tx.db.log100, raised |-> FALSE],
                             GitLogAuthorTimes(db_head, uptohead))
    IN  [db |-> [tx.db EXCEPT !.log100 = st.log100],
         raised |-> st.raised \/ returncode # 0]

\* db_commit that finds no row
DbCommitNoRow(d, table) == None

\* db_commit(table): the first row of the pointer table, or None
db_commit(d, table) == IF d[table] = <<>> THEN None ELSE Some(d[table][1])

\* update_db_commit(table, head): UPDATE, and INSERT when no row was updated
update_db_commit(tx, table, hd) ==
    IF Len(tx.db[table]) = 0 THEN [tx EXCEPT !.db[table] = <<hd>>]
    ELSE IF Len(tx.db[table]) > 1
    THEN [db |-> [tx.db EXCEPT ![table] = [i \in 1..Len(@) |-> hd]], raised |-> TRUE]
    ELSE [tx EXCEPT !.db[table] = <<hd>>]

\* lines 29-32 of poll_fs: the HEAD branch
PollHead(tx, gh, rcHead) ==
    LET db_head == db_commit(tx.db, "head")
    IN  IF db_head = Some(gh) THEN tx
        ELSE LET ins == insert_up_to(tx, db_head, gh, rcHead)
             IN  IF ins.raised THEN ins ELSE update_db_commit(ins, "head", gh)

\* lines 33-36 of poll_fs: the BRANCH_100 branch
Poll100(tx, g100, rc100) ==
    IF tx.raised THEN tx
    ELSE LET db_100 == db_commit(tx.db, "main100")
         IN  IF db_100 = Some(g100) THEN tx
             ELSE LET ins == insert_100_up_to(tx, db_100, g100, rc100)
                  IN  IF ins.raised THEN ins
                      ELSE update_db_commit(ins, "main100", g100)

\* ExitTransaction with the rollback lost: what the block did stays
ExitTransactionKeepsAll(before, tx) == tx.db

\* `with self.db:` commits what the block did, or rolls it back when it raised
ExitTransaction(before, tx) == IF tx.raised THEN before ELSE tx.db

\* a poll_fs with one transaction for each branch
PollFsPerBranch(d, gh, g100, rcHead, rc100) ==
    LET txHead == PollHead([db |-> d, raised |-> FALSE], gh, rcHead)
        afterHead == ExitTransaction(d, txHead)
        tx100 == Poll100([db |-> afterHead, raised |-> FALSE], g100, rc100)
    IN  [db |-> ExitTransaction(afterHead, tx100), raised |-> txHead.raised \/ tx100.raised]

\* the transaction of poll_fs, lines 27-36
poll_fs(d, gh, g100, rcHead, rc100) ==
    LET tx == Poll100(PollHead([db |-> d, raised |-> FALSE], gh, rcHead), g100, rc100)
    IN  [db |-> ExitTransaction(d, tx), raised |-> tx.raised]

(***************************************************************************)
(* GitarLog: the queries.                                                  *)
(***************************************************************************)
\* needs_xml_sha256 asking the xml_sha1 column
NeedsXmlSha256BySha1(d, xml_binsha256) ==
    LET Match(r) == r.xml_sha1 = Some(xml_binsha256)
    IN  Len(SelectSeq(d.log, Match)) = 0

\* needs_xml_sha256(xml_binsha256): SELECT COUNT(*) ... == 0
needs_xml_sha256(d, xml_binsha256) ==
    LET Match(r) == r.xml_sha256 = Some(xml_binsha256)
    IN  Len(SelectSeq(d.log, Match)) = 0

Reverse(s) == [i \in 1..Len(s) |-> s[Len(s) + 1 - i]]

\* int.from_bytes(b, byteorder): a Python int is kept as its base-256 digits,
\* least significant first
from_bytes(b, order) == IF order = "little" THEN b ELSE Reverse(b)

\* a | b in place of a ^ b
RECURSIVE BitOr(_, _)
BitOr(a, b) ==
    IF a = 0 /\ b = 0 THEN 0
    ELSE (IF (a % 2) + (b % 2) > 0 THEN 1 ELSE 0) + 2 * BitOr(a \div 2, b \div 2)

\* a ^ b of two bytes
RECURSIVE BitXor(_, _)
BitXor(a, b) ==
    IF a = 0 /\ b = 0 THEN 0
    ELSE (((a % 2) + (b % 2)) % 2) + 2 * BitXor(a \div 2, b \div 2)

\* r = x in place of r ^= x
IntAssign(r, x) == x

\* r ^ x
IntXor(r, x) ==
    LET n == IF Len(r) > Len(x) THEN Len(r) ELSE Len(x)
        Digit(v, i) == IF i <= Len(v) THEN v[i] ELSE 0
    IN  [i \in 1..n |-> BitXor(Digit(r, i), Digit(x, i))]

\* r.to_bytes(length, byteorder): OverflowError when r does not fit
to_bytes(r, length, order) ==
    IF \E i \in 1..Len(r) : i > length /\ r[i] # 0
    THEN [ok |-> FALSE, v |-> <<>>]
    ELSE LET le == [i \in 1..length |-> IF i <= Len(r) THEN r[i] ELSE 0]
         IN  [ok |-> TRUE, v |-> IF order = "little" THEN le ELSE Reverse(le)]

RECURSIVE XorRows(_, _, _)
XorRows(r, rows, order) ==
    IF rows = <<>> THEN r
    ELSE XorRows(IntXor(r, from_bytes(Head(rows).xml_sha1[1], order)), Tail(rows), order)

\* digest_xml_sha1()
digest_xml_sha1(d, order) == to_bytes(XorRows(<<>>, d.log, order), 20, order)

\* memcmp order of two BLOBs, a shorter prefix first
RECURSIVE BlobLess(_, _)
BlobLess(a, b) ==
    IF b = <<>> THEN FALSE
    ELSE IF a = <<>> THEN TRUE
    ELSE IF Head(a) # Head(b) THEN Head(a) < Head(b)
    ELSE BlobLess(Tail(a), Tail(b))

\* ORDER BY update_time, xml_sha1, sig_sha1: whether row a sorts before row b
OrderBefore(a, b) ==
    IF a.update_time # b.update_time THEN a.update_time[1] < b.update_time[1]
    ELSE IF a.xml_sha1 # b.xml_sha1 THEN BlobLess(a.xml_sha1[1], b.xml_sha1[1])
    ELSE BlobLess(a.sig_sha1[1], b.sig_sha1[1])

\* row put into the sorted sequence rows, after the rows it does not sort before
RECURSIVE SortedInsert(_, _)
SortedInsert(rows, row) ==
    IF rows = <<>> THEN <<row>>
    ELSE IF OrderBefore(row, Head(rows)) THEN <<row>> \o rows
    ELSE <<Head(rows)>> \o SortedInsert(Tail(rows), row)

RECURSIVE OrderBy(_)
OrderBy(rows) ==
    IF rows = <<>> THEN <<>>
    ELSE SortedInsert(OrderBy(SubSeq(rows, 1, Len(rows) - 1)), rows[Len(rows)])

\* WHERE update_time > ?
WhereAfter(rows, since) ==
    LET Match(r) == r.update_time[1] > since
    IN  SelectSeq(rows, Match)

\* WHERE update_time >= ?
WhereSince(rows, since) ==
    LET Match(r) == r.update_time[1] >= since
    IN  SelectSeq(rows, Match)

\* LIMIT ?: a negative limit is no limit
Limit(rows, count) ==
    IF count < 0 \/ count >= Len(rows) THEN rows ELSE SubSeq(rows, 1, count)

\* dumps_since that drops the columns it does not know and goes on
DumpsSinceDropsExtra(d, since, count, columns) ==
    LET cols == IF columns = None THEN public_columns ELSE columns[1]
        extra == cols \ public_columns
        needed == cols \cap public_columns
    IN  IF needed = {}
        THEN [raised |-> TRUE, queried |-> FALSE,
              value |-> <<"Bad columns set", extra, needed>>]
        ELSE LET rows == Limit(OrderBy(WhereSince(d.log, since)), count)
             IN  [raised |-> FALSE, queried |-> TRUE,
                  value |-> [i \in 1..Len(rows) |-> [c \in needed |-> rows[i][c]]]]

\* dumps_since(since, count, columns); columns is None or <<the set>>
dumps_since(d, since, count, columns) ==
    LET cols == IF columns = None THEN public_columns ELSE columns[1]
        extra == cols \ public_columns
        needed == cols \cap public_columns
    IN  IF extra # {} \/ needed = {}
        THEN [raised |-> TRUE, queried |-> FALSE,
              value |-> <<"Bad columns set", extra, needed>>]
        ELSE LET rows == Limit(OrderBy(WhereSince(d.log, since)), count)
             IN  [raised |-> FALSE, queried |-> TRUE,
                  value |-> [i \in 1..Len(rows) |-> [c \in needed |-> rows[i][c]]]]

(***************************************************************************)
(* The state machine.  A poll_fs is three steps: the two git rev-parse     *)
(* subprocesses, which run before the transaction begins, and the          *)
(* exclusive transaction, which no other connection can interleave with.   *)
(***************************************************************************)
\* what the proc.wait() of insert_up_to and of insert_100_up_to return: 0, or 128
\* when git log dies (the second git log is not run when the first has failed)
GitLogExits == {<<0, 0>>, <<128, 0>>, <<0, 128>>}

\* the author times the writer gives the commits of BRANCH_100
AuthorTimes == {<<"7">>, <<"9">>}

Returned(op, args, value) ==
    [op |-> op, args |-> args, raised |-> FALSE, queried |-> TRUE, value |-> value]

Raised(op, args, value) ==
    [op |-> op, args |-> args, raised |-> TRUE, queried |-> FALSE, value |-> value]

\* a digest of len bytes, all zero but the last, which is n
Blob(len, n) == [i \in 1..len |-> IF i = len THEN n ELSE 0]

\* the zip files the server of the model can list: the size its page shows for
\* the file, the bytes the file has, and the sha256 of the dump.xml in it
ZipNames == <<"registry-1.zip", "registry-2.zip">>

ZipFiles ==
    ("registry-1.zip" :> [zip_size |-> <<"2">>, bytes |-> 2, xml |-> Blob(32, 1)]) @@
    ("registry-2.zip" :> [zip_size |-> <<"3">>, bytes |-> 3, xml |-> Blob(32, 2)])

\* the files the server puts in the place of those of ZipFiles
ZipFilesReplaced ==
    ("registry-1.zip" :> [zip_size |-> <<"4">>, bytes |-> 4, xml |-> Blob(32, 3)]) @@
    ("registry-2.zip" :> [zip_size |-> <<"5">>, bytes |-> 5, xml |-> Blob(32, 4)])

InitRepo(conns) ==
    /\ gitLog = <<1>>
    /\ git100 = << <<"7">> >>
    /\ db = EmptyDb
    /\ pc = [c \in conns |-> "idle"]
    /\ git_head = [c \in conns |-> None]
    /\ git_100 = [c \in conns |-> None]
    /\ obj = {}
    /\ ret = Returned("create_table", <<>>, None)
    /\ clock = 0
    /\ zavod_dir = {"registry-1.zip"}
    /\ zavod_files = ZipFiles
    /\ che_file = 1
    /\ che = [etag |-> EmptyDb.che[1].etag, last_modified |-> EmptyDb.che[1].last_modified]
    /\ handles = [zavod |-> {}, che |-> {}]

\* the archive writer commits to HEAD
GitCommit(b, max) ==
    /\ Len(gitLog) < 1 + max
    /\ gitLog' = Append(gitLog, b)
    /\ UNCHANGED <<git100, db, pc, git_head, git_100, obj, ret, donorVars>>

\* the archive writer commits to BRANCH_100
GitCommit100(t) ==
    /\ Len(git100) < 1 + MaxCommits100
    /\ git100' = Append(git100, t)
    /\ UNCHANGED <<gitLog, db, pc, git_head, git_100, obj, ret, donorVars>>

\* poll_fs, line 25 (also the poll_fs that __init__ runs)
RevParseHead(c) ==
    /\ pc[c] = "idle"
    /\ git_head' = [git_head EXCEPT ![c] = Some(git_rev_parse(gitLog))]
    /\ pc' = [pc EXCEPT ![c] = "l26"]
    /\ ret' = Returned("git_rev_parse", <<"HEAD">>, None)
    /\ UNCHANGED <<gitLog, git100, db, git_100, obj, donorVars>>

\* poll_fs, line 26
RevParse100(c) ==
    /\ pc[c] = "l26"
    /\ git_100' = [git_100 EXCEPT ![c] = Some(git_rev_parse(git100))]
    /\ pc' = [pc EXCEPT ![c] = "l27"]
    /\ UNCHANGED <<gitLog, git100, db, git_head, obj, ret, donorVars>>

\* git rev-parse exits non-zero: check=True raises and poll_fs ends
RevParseFails(c) ==
    /\ pc[c] = "l26"
    /\ pc' = [pc EXCEPT ![c] = "idle"]
    /\ git_head' = [git_head EXCEPT ![c] = None]
    /\ ret' = Raised("poll_fs", <<>>, "CalledProcessError")
    /\ UNCHANGED <<gitLog, git100, db, git_100, obj, donorVars>>

\* poll_fs, lines 27-36: the transaction, committed or rolled back
PollFsTransaction(c) ==
    /\ pc[c] = "l27"
    /\ \E rc \in GitLogExits :
          \E r \in {poll_fs(db, git_head[c][1], git_100[c][1], rc[1], rc[2])} :
              /\ db' = r.db
              /\ ret' = IF r.raised THEN Raised("poll_fs", <<>>, "RuntimeError")
                        ELSE Returned("poll_fs", <<>>, None)
              /\ obj' = IF r.raised THEN obj ELSE obj \cup {c}
    /\ pc' = [pc EXCEPT ![c] = "idle"]
    /\ git_head' = [git_head EXCEPT ![c] = None]
    /\ git_100' = [git_100 EXCEPT ![c] = None]
    /\ UNCHANGED <<gitLog, git100, donorVars>>

\* the arguments the model calls the queries with
Sha256Probes == {Blob(32, 1), Blob(32, 2), Blob(32, 3), Blob(32, 9), Blob(20, 1)}

ByteOrders == {"little", "big"}

Sinces == {1, 2, 3}

Counts == {-1, 0, 1, 5}

ColumnSets ==
    {None, Some({"update_time"}), Some({"xml_sha1", "update_time_urgently"}),
     Some({"xml_git", "update_time"}), Some({"xml_git", "no_such_column"}), Some({})}

\* needs_xml_sha256(x), with its assertion on the length
NeedsXmlSha256(c, x) ==
    /\ pc[c] = "idle" /\ c \in obj
    /\ ret' = IF Len(x) # 32 THEN Raised("needs_xml_sha256", <<x>>, "AssertionError")
              ELSE Returned("needs_xml_sha256", <<x>>, needs_xml_sha256(db, x))
    /\ UNCHANGED <<gitLog, git100, db, pc, git_head, git_100, obj, donorVars>>

\* digest_xml_sha1() on a machine of the given sys.byteorder
DigestXmlSha1(c, order) ==
    /\ pc[c] = "idle" /\ c \in obj
    /\ \E r \in {digest_xml_sha1(db, order)} :
           ret' = IF r.ok THEN Returned("digest_xml_sha1", <<order>>, r.v)
                  ELSE Raised("digest_xml_sha1", <<order>>, "OverflowError")
    /\ UNCHANGED <<gitLog, git100, db, pc, git_head, git_100, obj, donorVars>>

\* dumps_since(since, count, columns)
DumpsSince(c, since, count, columns) ==
    /\ pc[c] = "idle" /\ c \in obj
    /\ \E r \in {dumps_since(db, since, count, columns)} :
           ret' = [op |-> "dumps_since",
                   args |-> [since |-> since, count |-> count, columns |-> columns],
                   raised |-> r.raised, queried |-> r.queried, value |-> r.value]
    /\ UNCHANGED <<gitLog, git100, db, pc, git_head, git_100, obj, donorVars>>

(***************************************************************************)
(* DonorZavod.                                                             *)
(***************************************************************************)
\* regex.findall(r.text): the (name, size) pairs of the page, in page order
findall(dir, files) ==
    LET Listed(f) == f \in dir
        names == SelectSeq(ZipNames, Listed)
    IN  [i \in 1..Len(names) |-> <<names[i], files[names[i]].zip_size>>]

\* INSERT OR REPLACE INTO zavod: a listed file gets a fresh row
UpsertReplace(table, zip_fname, zip_size, now) ==
    LET Others(r) == r.zip_fname # zip_fname
    IN  Append(SelectSeq(table, Others),
               [zip_fname |-> zip_fname, zip_size |-> zip_size, fetched |-> 0,
                xml_sha256 |-> None, last_seen |-> now])

\* INSERT INTO zavod ... ON CONFLICT (zip_fname) DO UPDATE SET last_seen = ?
Upsert(table, zip_fname, zip_size, now) ==
    IF \E i \in 1..Len(table) : table[i].zip_fname = zip_fname
    THEN [i \in 1..Len(table) |->
            IF table[i].zip_fname = zip_fname
            THEN [table[i] EXCEPT !.last_seen = now] ELSE table[i]]
    ELSE Append(table, [zip_fname |-> zip_fname, zip_size |-> zip_size, fetched |-> 0,
                        xml_sha256 |-> None, last_seen |-> now])

\* for zip_fname, zip_size in page: ...
RECURSIVE UpsertPage(_, _, _)
UpsertPage(table, page, now) ==
    IF page = <<>> THEN table
    ELSE LET next == Upsert(table, page[1][1], int(page[1][2]).v, now)
         IN  UpsertPage(next, Tail(page), now)

\* a list_handles without the DELETE
DeleteNothing(table, now) == table

\* DELETE FROM zavod WHERE last_seen < now - 86400
DeleteStale(table, now) ==
    LET Kept(r) == ~(r.last_seen < now - 86400)
    IN  SelectSeq(table, Kept)

\* a WHERE clause that offers the rows not fetched only
WhereNotFetched(d, r) == r.fetched = 0

\* WHERE NOT fetched OR xml_sha256 IS NOT NULL AND xml_sha256 NOT IN
\* (SELECT xml_sha256 FROM log)
WhereToFetch(d, r) ==
    \/ r.fetched = 0
    \/ /\ r.xml_sha256 # None
       /\ ~\E k \in 1..Len(d.log) : d.log[k].xml_sha256 = r.xml_sha256

\* DonorZavod.list_handles(limit) when the GET succeeds, at time now
zavod_list_handles(d, page, now, limit) ==
    LET table == DeleteStale(UpsertPage(d.zavod, page, now), now)
        ToFetch(r) == WhereToFetch(d, r)
        rows == Limit(SelectSeq(table, ToFetch), limit)
    IN  [db |-> [d EXCEPT !.zavod = table],
         value |-> [i \in 1..Len(rows) |-> <<rows[i].zip_fname, rows[i].zip_size>>]]

\* UPDATE zavod SET fetched = 1, xml_sha256 = ? WHERE zip_fname = ?
UpdateFetched(table, zip_fname, xml_binsha256) ==
    [i \in 1..Len(table) |->
        IF table[i].zip_fname = zip_fname
        THEN [table[i] EXCEPT !.fetched = 1, !.xml_sha256 = Some(xml_binsha256)]
        ELSE table[i]]

\* a fetch_xml_and_sig that does not compare the sizes
ZavodFetchUnchecked(d, handle, zip) ==
    IF zip = None
    THEN [db |-> d, raised |-> TRUE, value |-> <<"HTTPError">>]
    ELSE [db |-> [d EXCEPT !.zavod = UpdateFetched(d.zavod, handle[1], zip[1].xml)],
          raised |-> FALSE, value |-> zip[1].xml]

\* DonorZavod.fetch_xml_and_sig(tmpdir, handle); zip is what save_url has left at
\* zip_path: None when it raised, else the bytes of the file and the sha256 of
\* the dump.xml that zipfile extracts from it
zavod_fetch_xml_and_sig(d, handle, zip) ==
    IF zip = None
    THEN [db |-> d, raised |-> TRUE, value |-> <<"HTTPError">>]
    ELSE IF zip[1].bytes # handle[2]
    THEN [db |-> d, raised |-> TRUE,
          value |-> <<"Truncated zip", handle[1], handle[2], zip[1].bytes>>]
    ELSE [db |-> [d EXCEPT !.zavod = UpdateFetched(d.zavod, handle[1], zip[1].xml)],
          raised |-> FALSE, value |-> zip[1].xml]

\* what the status of the answer to a GET can be: raise_for_status raises on 503
HttpStatuses == {200, 503}

\* what limit the caller passes
Limits == {1, 5}

\* the steps of the clock, in seconds: a day and a second
Ticks == {86401}

\* time passes
Tick(d) ==
    /\ clock \div 86400 < MaxTicks
    /\ clock' = clock + d
    /\ UNCHANGED <<gitLog, git100, db, pc, git_head, git_100, obj, ret,
                   zavod_dir, zavod_files, che_file, che, handles>>

\* the server starts to list a file
ZavodPublish(f) ==
    /\ f \notin zavod_dir
    /\ zavod_dir' = zavod_dir \cup {f}
    /\ UNCHANGED <<gitLog, git100, db, pc, git_head, git_100, obj, ret,
                   clock, zavod_files, che_file, che, handles>>

\* the server removes a file
ZavodRetire(f) ==
    /\ f \in zavod_dir
    /\ zavod_dir' = zavod_dir \ {f}
    /\ UNCHANGED <<gitLog, git100, db, pc, git_head, git_100, obj, ret,
                   clock, zavod_files, che_file, che, handles>>

\* the server puts another file, of another size, under a name it holds
ZavodReplace(f) ==
    /\ zavod_files[f] = ZipFiles[f]
    /\ zavod_files' = [zavod_files EXCEPT ![f] = ZipFilesReplaced[f]]
    /\ UNCHANGED <<gitLog, git100, db, pc, git_head, git_100, obj, ret,
                   clock, zavod_dir, che_file, che, handles>>

\* DonorZavod.list_handles(limit): one exclusive transaction; a failed GET raises
\* out of it before anything is written
ZavodListHandles(limit, status) ==
    /\ IF status = 200
       THEN \E r \in {zavod_list_handles(db, findall(zavod_dir, zavod_files), clock, limit)} :
                /\ db' = r.db
                /\ ret' = Returned("zavod.list_handles", <<limit>>, r.value)
                /\ handles' = [handles EXCEPT
                                 !.zavod = {r.value[i] : i \in 1..Len(r.value)}]
       ELSE /\ ret' = Raised("zavod.list_handles", <<limit>>, <<"HTTPError">>)
            /\ UNCHANGED <<db, handles>>
    /\ UNCHANGED <<gitLog, git100, pc, git_head, git_100, obj,
                   clock, zavod_dir, zavod_files, che_file, che>>

\* what save_url can leave at zip_path for a file: nothing (it raised), the whole
\* file, or the file cut short by one byte
Downloads(zip_fname) ==
    IF zip_fname \in zavod_dir
    THEN {None,
          Some([bytes |-> zavod_files[zip_fname].bytes, xml |-> zavod_files[zip_fname].xml]),
          Some([bytes |-> zavod_files[zip_fname].bytes - 1,
                xml |-> zavod_files[zip_fname].xml])}
    ELSE {None}

\* DonorZavod.fetch_xml_and_sig(tmpdir, handle) on a handle the caller holds
ZavodFetch(handle, zip) ==
    /\ handle \in handles.zavod
    /\ \E r \in {zavod_fetch_xml_and_sig(db, handle, zip)} :
           /\ db' = r.db
           /\ ret' = IF r.raised
                     THEN Raised("zavod.fetch_xml_and_sig", <<handle, zip>>, r.value)
                     ELSE Returned("zavod.fetch_xml_and_sig", <<handle, zip>>, r.value)
    /\ handles' = [handles EXCEPT !.zavod = @ \ {handle}]
    /\ UNCHANGED <<gitLog, git100, pc, git_head, git_100, obj,
                   clock, zavod_dir, zavod_files, che_file, che>>

(***************************************************************************)
(* DonorChe.                                                               *)
(***************************************************************************)
\* the versions of the file the server of the model can hold: the ETag and the
\* Last-Modified it answers with, and the sha256 of the dump.xml in the zip
CheVersions ==
    << [etag |-> "v1", last_modified |-> "day 1", xml |-> Blob(32, 1)],
       [etag |-> "v2", last_modified |-> "day 2", xml |-> Blob(32, 2)],
       [etag |-> "v3", last_modified |-> "day 3", xml |-> Blob(32, 3)],
       [etag |-> "v4", last_modified |-> "day 4", xml |-> Blob(32, 4)],
       [etag |-> "v5", last_modified |-> "day 5", xml |-> Blob(32, 5)] >>

\* the answer to self.s.get(file_url, headers = validators) of a server that
\* holds version v: 304 when If-None-Match names its ETag, else 200 and the file
get(v, if_none_match, if_modified_since) ==
    IF if_none_match = CheVersions[v].etag
    THEN [status_code |-> 304, headers |-> None]
    ELSE [status_code |-> 200, headers |-> Some(CheVersions[v])]

\* a list_handles that sends no validators
CheListHandlesUnconditional(self, limit, v, answers) ==
    IF ~(limit >= 1) THEN [raised |-> TRUE, value |-> <<"AssertionError">>]
    ELSE IF ~answers THEN [raised |-> TRUE, value |-> <<"HTTPError">>]
    ELSE LET r == get(v, "", "")
         IN  IF r.status_code = 200
             THEN [raised |-> FALSE, value |-> <<r.headers[1]>>]
             ELSE [raised |-> FALSE, value |-> <<>>]

\* DonorChe.list_handles(limit) of the object self, the server holding version v
\* and answering, or failing with 503
che_list_handles(self, limit, v, answers) ==
    IF ~(limit >= 1) THEN [raised |-> TRUE, value |-> <<"AssertionError">>]
    ELSE IF ~answers THEN [raised |-> TRUE, value |-> <<"HTTPError">>]
    ELSE LET r == get(v, self.etag, self.last_modified)
         IN  IF r.status_code = 200
             THEN [raised |-> FALSE, value |-> <<r.headers[1]>>]
             ELSE [raised |-> FALSE, value |-> <<>>]

\* UPDATE che SET etag = ?, last_modified = ?, xml_sha256 = NULL
UpdateValidators(table, etag, last_modified) ==
    [i \in 1..Len(table) |->
        [etag |-> etag, last_modified |-> last_modified, xml_sha256 |-> None]]

\* UPDATE che SET xml_sha256 = ?
UpdateXmlSha256(table, xml_binsha256) ==
    [i \in 1..Len(table) |-> [table[i] EXCEPT !.xml_sha256 = Some(xml_binsha256)]]

\* how a fetch can go: the stream breaks, the zip does not open, or all is well
FetchOutcomes == {"stream breaks", "bad zip", "ok"}

\* a fetch_xml_and_sig that keeps the validators it had
CheFetchKeepsValidators(d, self, r, outcome) ==
    IF outcome = "stream breaks"
    THEN [db |-> d, self |-> self, raised |-> TRUE, value |-> <<"ConnectionError">>]
    ELSE IF outcome = "bad zip"
    THEN [db |-> d, self |-> self, raised |-> TRUE, value |-> <<"BadZipFile">>]
    ELSE [db |-> [d EXCEPT !.che = UpdateXmlSha256(d.che, r.xml)], self |-> self,
          raised |-> FALSE, value |-> r.xml]

\* DonorChe.fetch_xml_and_sig(tmpdir, r) of the object self
che_fetch_xml_and_sig(d, self, r, outcome) ==
    IF outcome = "stream breaks"
    THEN [db |-> d, self |-> self, raised |-> TRUE, value |-> <<"ConnectionError">>]
    ELSE
        LET new == [etag |-> r.etag, last_modified |-> r.last_modified]
            tx1 == [d EXCEPT !.che = UpdateValidators(d.che, new.etag, new.last_modified)]
        IN  IF outcome = "bad zip"
            THEN [db |-> tx1, self |-> new, raised |-> TRUE, value |-> <<"BadZipFile">>]
            ELSE [db |-> [tx1 EXCEPT !.che = UpdateXmlSha256(tx1.che, r.xml)],
                  self |-> new, raised |-> FALSE, value |-> r.xml]

\* the limits the caller passes to DonorChe.list_handles
CheLimits == {0, 1}

\* the file at file_url is replaced
CheUpload ==
    /\ che_file < 1 + MaxUploads
    /\ che_file' = che_file + 1
    /\ UNCHANGED <<gitLog, git100, db, pc, git_head, git_100, obj, ret,
                   clock, zavod_dir, zavod_files, che, handles>>

\* DonorChe.list_handles(limit)
CheListHandles(limit, answers) ==
    /\ \E r \in {che_list_handles(che, limit, che_file, answers)} :
          /\ ret' = [op |-> "che.list_handles",
                     args |-> <<limit, che.etag, che.last_modified>>,
                     raised |-> r.raised, queried |-> FALSE, value |-> r.value]
          /\ handles' = IF r.raised THEN handles
                        ELSE [handles EXCEPT !.che = {r.value[i] : i \in 1..Len(r.value)}]
    /\ UNCHANGED <<gitLog, git100, db, pc, git_head, git_100, obj,
                   clock, zavod_dir, zavod_files, che_file, che>>

\* DonorChe.fetch_xml_and_sig(tmpdir, r) on a response the caller holds
CheFetch(r, outcome) ==
    /\ r \in handles.che
    /\ \E f \in {che_fetch_xml_and_sig(db, che, r, outcome)} :
          /\ db' = f.db
          /\ che' = f.self
          /\ ret' = [op |-> "che.fetch_xml_and_sig", args |-> <<r, outcome>>,
                     raised |-> f.raised, queried |-> FALSE, value |-> f.value]
    /\ handles' = [handles EXCEPT !.che = @ \ {r}]
    /\ UNCHANGED <<gitLog, git100, pc, git_head, git_100, obj,
                   clock, zavod_dir, zavod_files, che_file>>

\* DonorChe.__init__: SELECT etag, last_modified FROM che LIMIT 1
che_init(d) == [etag |-> d.che[1].etag, last_modified |-> d.che[1].last_modified]

\* the process dies and starts again: the responses it held are gone and a new
\* DonorChe object is constructed over the same store
CheRestart ==
    /\ che' = che_init(db)
    /\ handles' = [handles EXCEPT !.che = {}]
    /\ UNCHANGED <<gitLog, git100, db, pc, git_head, git_100, obj, ret,
                   clock, zavod_dir, zavod_files, che_file>>

\* the bodies the writer of Spec commits: no body, a release, a release that
\* repeats its SHA256, a malformed body, a release that repeats its SHA1
SyncBodies == {1, 2, 5, 6, 8}

\* the single connection of section 5
Init == InitRepo({1})

Next ==
    \/ \E b \in SyncBodies : GitCommit(b, MaxCommits)
    \/ \E t \in AuthorTimes : GitCommit100(t)
    \/ \E c \in DOMAIN pc : RevParseHead(c)
    \/ \E c \in DOMAIN pc : RevParse100(c)
    \/ \E c \in DOMAIN pc : RevParseFails(c)
    \/ \E c \in DOMAIN pc : PollFsTransaction(c)

Spec == Init /\ [][Next]_vars

\* the single connection, an archive of releases, and the queries
NextQuery ==
    \/ \E b \in ReleaseBodies : GitCommit(b, MaxReleases)
    \/ \E c \in DOMAIN pc : RevParseHead(c)
    \/ \E c \in DOMAIN pc : RevParse100(c)
    \/ \E c \in DOMAIN pc : PollFsTransaction(c)
    \/ \E c \in DOMAIN pc : \E x \in Sha256Probes : NeedsXmlSha256(c, x)
    \/ \E c \in DOMAIN pc : \E order \in ByteOrders : DigestXmlSha1(c, order)
    \/ \E c \in DOMAIN pc : \E since \in Sinces, count \in Counts, columns \in ColumnSets :
            DumpsSince(c, since, count, columns)

SpecQuery == Init /\ [][NextQuery]_vars

\* the single connection, the archive writer, and DonorZavod with its server
NextZavod ==
    \/ GitCommit(2, MaxArchived)
    \/ \E c \in DOMAIN pc : RevParseHead(c)
    \/ \E c \in DOMAIN pc : RevParse100(c)
    \/ \E c \in DOMAIN pc : PollFsTransaction(c)
    \/ \E d \in Ticks : Tick(d)
    \/ \E f \in DOMAIN ZipFiles : ZavodPublish(f)
    \/ \E f \in DOMAIN ZipFiles : ZavodRetire(f)
    \/ \E limit \in Limits, status \in HttpStatuses : ZavodListHandles(limit, status)
    \/ \E handle \in handles.zavod : \E zip \in Downloads(handle[1]) : ZavodFetch(handle, zip)

SpecZavod == Init /\ [][NextZavod]_vars

\* DonorZavod and a server that replaces files under their names
NextZavodSizes ==
    \/ \E d \in Ticks : Tick(d)
    \/ \E f \in DOMAIN ZipFiles : ZavodPublish(f)
    \/ \E f \in DOMAIN ZipFiles : ZavodRetire(f)
    \/ \E f \in DOMAIN ZipFiles : ZavodReplace(f)
    \/ \E limit \in Limits, status \in HttpStatuses : ZavodListHandles(limit, status)
    \/ \E handle \in handles.zavod : \E zip \in Downloads(handle[1]) : ZavodFetch(handle, zip)

SpecZavodSizes == Init /\ [][NextZavodSizes]_vars

\* DonorChe, its callers and its server
NextChe ==
    \/ CheUpload
    \/ \E limit \in CheLimits, answers \in BOOLEAN : CheListHandles(limit, answers)
    \/ \E r \in handles.che : \E outcome \in FetchOutcomes : CheFetch(r, outcome)
    \/ CheRestart

SpecChe == Init /\ [][NextChe]_vars

\* two connections to the same sqlite file, each running poll_fs
InitConc == InitRepo({1, 2})

NextConc ==
    \/ \E b \in {1, 2} : GitCommit(b, MaxCommits)
    \/ \E t \in AuthorTimes : GitCommit100(t)
    \/ \E c \in DOMAIN pc : RevParseHead(c)
    \/ \E c \in DOMAIN pc : RevParse100(c)
    \/ \E c \in DOMAIN pc : PollFsTransaction(c)

SpecConc == InitConc /\ [][NextConc]_vars

(***************************************************************************)
(* The claims.                                                             *)
(***************************************************************************)
\* the stored pointer of a branch, 0 when the table has no row
Pointer(table) == IF db[table] = <<>> THEN 0 ELSE db[table][1]

\* the xml_sha1 of each release of CommitBodies, as bytes
XmlSha1Of ==
    (2 :> Blob(20, 1)) @@ (3 :> Blob(20, 2)) @@ (4 :> Blob(20, 3)) @@ (5 :> Blob(20, 4)) @@
    (8 :> Blob(20, 1))

\* the number a %at text of AuthorTimes stands for
AuthorTimeOf == (<<"7">> :> 7) @@ (<<"9">> :> 9)

CountOf(seq, v) == Cardinality({i \in 1..Len(seq) : seq[i] = v})

\* C1: in every committed state each pointer and the records of its branch agree:
\* head names commit h exactly when log holds one record for each commit with a
\* body among the commits 1..h of HEAD and no other record (no pointer, no
\* record), and main100 names commit m exactly when log100 holds the author
\* times of the commits 1..m of BRANCH_100 and nothing else.
C1_PointerAndRecordsAgree ==
    LET h == Pointer("head")
        m == Pointer("main100")
        withBody == {i \in 1..h : gitLog[i] # 1}
    IN  /\ Len(db.head) <= 1 /\ Len(db.main100) <= 1
        /\ h <= Len(gitLog) /\ m <= Len(git100)
        /\ \A i \in withBody : gitLog[i] \in DOMAIN XmlSha1Of
        /\ Len(db.log) = Cardinality(withBody)
        /\ {db.log[k].xml_sha1 : k \in 1..Len(db.log)}
              = {Some(XmlSha1Of[gitLog[i]]) : i \in withBody}
        /\ Len(db.log100) = m
        /\ \A t \in DOMAIN AuthorTimeOf :
              CountOf(db.log100, AuthorTimeOf[t]) = Cardinality({i \in 1..m : git100[i] = t})

\* a poll_fs has just failed on a range that holds a well-formed release after
\* (that is, listed before) a malformed commit, over a store already synced once
C1_Witness ==
    /\ ret.op = "poll_fs" /\ ret.raised
    /\ db.head # <<>>
    /\ \E i, j \in 1..Len(gitLog) :
          Pointer("head") < i /\ i < j /\ gitLog[i] = 6 /\ gitLog[j] \in ReleaseBodies

\* C2: each stored pointer only advances: a step never replaces the commit a
\* pointer names by a strict ancestor of it, nor removes the pointer.
C2_PointersAdvance ==
    [][\A t \in {"head", "main100"} :
          db[t] # <<>> => (db'[t] # <<>> /\ db'[t][1] >= db[t][1])]_vars

\* C3: a poll_fs transaction that finds both stored pointers equal to the tips it
\* resolved leaves head, main100, log and log100 exactly as they were.
C3_PollFsIdempotent ==
    [][\A c \in DOMAIN pc :
          (/\ pc[c] = "l27" /\ pc'[c] = "idle"
           /\ db.head = git_head[c]
           /\ db.main100 = git_100[c])
          => db' = db]_vars

\* a poll_fs is about to run its transaction on a store that holds records and
\* whose pointers are the tips of both branches
C3_Witness ==
    \E c \in DOMAIN pc :
        /\ pc[c] = "l27"
        /\ db.head = git_head[c] /\ db.main100 = git_100[c]
        /\ git_head[c] = Some(Len(gitLog)) /\ git_100[c] = Some(Len(git100))
        /\ db.log # <<>> /\ db.log100 # <<>>

\* a sorts before b as BLOBs: they agree up to a byte where a is smaller or has ended
BytesBefore(a, b) ==
    \E i \in 1..Len(b) :
        /\ \A j \in 1..(i - 1) : j <= Len(a) /\ a[j] = b[j]
        /\ (i > Len(a) \/ a[i] < b[i])

\* record r comes before record q in the order (update_time, xml_sha1, sig_sha1)
KeyBefore(r, q) ==
    \/ r.update_time[1] < q.update_time[1]
    \/ /\ r.update_time = q.update_time
       /\ \/ BytesBefore(r.xml_sha1[1], q.xml_sha1[1])
          \/ /\ r.xml_sha1 = q.xml_sha1
             /\ BytesBefore(r.sig_sha1[1], q.sig_sha1[1])

\* C7: dumps_since(since, count, cols) with count >= 0 and cols a non-empty set of
\* public columns (or None) returns min(count, |M|) rows, where M is the records
\* with update_time >= since: the record of M that has k records of M before it
\* in the order (update_time, xml_sha1, sig_sha1) is row k + 1 of the result when
\* k < count, projected to cols.
C7_DumpsSinceFirstOfSorted ==
    (/\ ret.op = "dumps_since"
     /\ ret.args.count >= 0
     /\ ret.args.columns # None =>
            (ret.args.columns[1] # {} /\ ret.args.columns[1] \subseteq public_columns))
    => LET since == ret.args.since
           count == ret.args.count
           cols == IF ret.args.columns = None THEN public_columns ELSE ret.args.columns[1]
           M == {k \in 1..Len(db.log) : db.log[k].update_time[1] >= since}
           Rank(k) == Cardinality({j \in M : KeyBefore(db.log[j], db.log[k])})
       IN  /\ ~ret.raised
           /\ Len(ret.value) = (IF count < Cardinality(M) THEN count ELSE Cardinality(M))
           /\ \A k \in M : Rank(k) < count =>
                 ret.value[Rank(k) + 1] = [c \in cols |-> db.log[k][c]]

\* dumps_since(2, 1, cols) over a log of three records: the filter drops a record,
\* the limit another, and xml_sha1 decides which of the two that tie on update_time
C7_Witness ==
    /\ ret.op = "dumps_since" /\ ~ret.raised
    /\ ret.args.since = 2 /\ ret.args.count = 1
    /\ Len(db.log) = 3 /\ Len(ret.value) = 1

\* C8: dumps_since with a column outside public_columns raises the ValueError
\* whose second argument is the set of those columns, before any query.
C8_DumpsSinceRejectsExtraColumns ==
    (/\ ret.op = "dumps_since"
     /\ ret.args.columns # None
     /\ ret.args.columns[1] \ public_columns # {})
    => /\ ret.raised
       /\ ~ret.queried
       /\ ret.value[1] = "Bad columns set"
       /\ ret.value[2] = ret.args.columns[1] \ public_columns

\* a call that names an allowed and a forbidden column, over a log with records
C8_Witness ==
    /\ ret.op = "dumps_since" /\ ret.raised
    /\ ret.args.columns = Some({"xml_git", "update_time"})
    /\ db.log # <<>>

\* C9: needs_xml_sha256(d) returns false exactly when a record of log carries d,
\* and a digest it returns false for stays one it returns false for.
C9_NeedsXmlSha256 ==
    /\ []((ret.op = "needs_xml_sha256" /\ ~ret.raised) =>
             (ret.value = FALSE <=>
                 \E k \in 1..Len(db.log) : db.log[k].xml_sha256 = Some(ret.args[1])))
    /\ [][\A x \in Sha256Probes :
             needs_xml_sha256(db, x) = FALSE => needs_xml_sha256(db', x) = FALSE]_vars

\* needs_xml_sha256 has returned false for the digest of an indexed release
C9_Witness ==
    /\ ret.op = "needs_xml_sha256" /\ ~ret.raised /\ ret.value = FALSE
    /\ Len(ret.args[1]) = 32

\* the rows of log whose positions are in S, as a log
RECURSIVE SubLog(_, _)
SubLog(log, S) ==
    IF log = <<>> THEN <<>>
    ELSE SubLog(SubSeq(log, 1, Len(log) - 1), S) \o
         (IF Len(log) \in S THEN <<log[Len(log)]>> ELSE <<>>)

Odd(n) == n % 2 = 1

Pow2(j) == IF j = 0 THEN 1 ELSE IF j = 1 THEN 2 ELSE IF j = 2 THEN 4 ELSE IF j = 3 THEN 8
           ELSE IF j = 4 THEN 16 ELSE IF j = 5 THEN 32 ELSE IF j = 6 THEN 64 ELSE 128

\* an odd number of the hashes of H have bit j of byte p set, for some p and j
OddAtSomeBit(H) ==
    \E p \in 1..20, j \in 0..7 :
        Odd(Cardinality({h \in H : ((h[p] \div Pow2(j)) % 2) = 1}))

\* C10 as stated: the digest of log differs from the digest of a part of log
\* exactly when the number of hashes that the two do not share is odd.
C10_DigestDiffersIffOddCount ==
    (ret.op = "digest_xml_sha1" /\ ~ret.raised) =>
        \A S \in SUBSET (1..Len(db.log)) :
            LET H == {db.log[k].xml_sha1[1] : k \in (1..Len(db.log)) \ S}
                other == digest_xml_sha1([db EXCEPT !.log = SubLog(db.log, S)], ret.args[1])
            IN  (other.v # ret.value) <=> Odd(Cardinality(H))

\* C10, amended: the digest of log differs from the digest of a part of log
\* exactly when, at some bit of the 20 bytes, an odd number of the hashes that
\* the two do not share have the bit set.
C10_DigestDiffersIffOddAtSomeBit ==
    (ret.op = "digest_xml_sha1" /\ ~ret.raised) =>
        \A S \in SUBSET (1..Len(db.log)) :
            LET H == {db.log[k].xml_sha1[1] : k \in (1..Len(db.log)) \ S}
                other == digest_xml_sha1([db EXCEPT !.log = SubLog(db.log, S)], ret.args[1])
            IN  (other.v # ret.value) <=> OddAtSomeBit(H)

\* digest_xml_sha1 has returned 20 zero bytes over a log of three records
C10_Witness ==
    /\ ret.op = "digest_xml_sha1" /\ ~ret.raised
    /\ Len(db.log) = 3
    /\ ret.value = [i \in 1..20 |-> 0]

\* the handles of the rows of zavod that are not fetched, or are fetched with a
\* digest that no record of log carries
UnarchivedHandles ==
    {<<db.zavod[i].zip_fname, db.zavod[i].zip_size>> : i \in
        {i \in 1..Len(db.zavod) :
            \/ db.zavod[i].fetched = 0
            \/ /\ db.zavod[i].xml_sha256 # None
               /\ \A k \in 1..Len(db.log) :
                     db.log[k].xml_sha256 # db.zavod[i].xml_sha256}}

\* C4: what Zavod's list_handles(limit) returns is limit of the rows that are not
\* fetched or are fetched with a digest in no log record, or all of them when
\* they are no more than limit, each once: a fetched file is offered again until
\* its digest is in log, and never after.
C4_ZavodOffersUnarchived ==
    (ret.op = "zavod.list_handles" /\ ~ret.raised) =>
        LET offered == {ret.value[i] : i \in 1..Len(ret.value)}
            limit == ret.args[1]
        IN  /\ offered \subseteq UnarchivedHandles
            /\ Cardinality(offered) = Len(ret.value)
            /\ Len(ret.value) = IF limit < 0 \/ Cardinality(UnarchivedHandles) <= limit
                                THEN Cardinality(UnarchivedHandles) ELSE limit

\* list_handles has offered again a file that was fetched and is not archived,
\* and has omitted a fetched file whose digest is in log
C4_Witness ==
    /\ ret.op = "zavod.list_handles" /\ ~ret.raised
    /\ \E i, j \in 1..Len(db.zavod) :
          /\ db.zavod[i].fetched = 1
          /\ \E n \in 1..Len(ret.value) : ret.value[n][1] = db.zavod[i].zip_fname
          /\ db.zavod[j].fetched = 1
          /\ \E k \in 1..Len(db.log) : db.log[k].xml_sha256 = db.zavod[j].xml_sha256
          /\ \A n \in 1..Len(ret.value) : ret.value[n][1] # db.zavod[j].zip_fname

\* C6: a Zavod fetch_xml_and_sig whose download has another size than the handle
\* names raises ('Truncated zip', name, expected size, actual size) and leaves
\* the zavod table as it was.
C6_TruncatedZipLeavesRow ==
    [][(ret'.op = "zavod.fetch_xml_and_sig" /\ handles' # handles) =>
          LET handle == ret'.args[1]
              zip == ret'.args[2]
          IN  (zip # None /\ zip[1].bytes # handle[2]) =>
                  /\ ret'.raised
                  /\ ret'.value = <<"Truncated zip", handle[1], handle[2], zip[1].bytes>>
                  /\ db'.zavod = db.zavod]_vars

\* a fetch of a file that is in the table has failed on a short download
C6_Witness ==
    /\ ret.op = "zavod.fetch_xml_and_sig" /\ ret.raised
    /\ ret.value[1] = "Truncated zip"
    /\ ret.value[3] # ret.value[4]
    /\ \E i \in 1..Len(db.zavod) : db.zavod[i].zip_fname = ret.value[2]

\* the validators of the che row
RowValidators(d) == [etag |-> d.che[1].etag, last_modified |-> d.che[1].last_modified]

\* the ETag and Last-Modified of a response
Validators(r) == [etag |-> r.etag, last_modified |-> r.last_modified]

\* C5, as claimed: once the server has answered a list_handles with 200, the
\* validators of the answer are what the DonorChe object would send next and
\* what the che row holds.
C5_ValidatorsFollowAnswer ==
    (ret.op = "che.list_handles" /\ ~ret.raised /\ ret.value # <<>>) =>
        /\ che = Validators(ret.value[1])
        /\ RowValidators(db) = Validators(ret.value[1])

\* C5, amended: the object and the che row hold the same validators, which are
\* those every list_handles sends; a fetch_xml_and_sig that reads the 200 answer
\* to its end makes them those of that answer, and no other step changes them.
C5_ValidatorsFollowFetch ==
    /\ [](che = RowValidators(db))
    /\ []((ret.op = "che.list_handles" /\ ~ret.raised) =>
             (ret.args[2] = che.etag /\ ret.args[3] = che.last_modified))
    /\ [][IF /\ ret'.op = "che.fetch_xml_and_sig" /\ handles' # handles
             /\ ret'.args[2] # "stream breaks"
          THEN /\ che' = Validators(ret'.args[1])
               /\ RowValidators(db') = Validators(ret'.args[1])
          ELSE che' = che /\ RowValidators(db') = RowValidators(db)]_vars

\* a fetch has read a 200 answer to its end and a later list_handles has sent
\* the validators of that answer
C5_Witness ==
    /\ ret.op = "che.list_handles" /\ ~ret.raised
    /\ ret.args[2] # "urandom"
    /\ ret.args[2] = db.che[1].etag
    /\ ret.value # <<>>

\* the ways to order n rows
Orders(n) == {f \in [1..n -> 1..n] : \A i, j \in 1..n : f[i] = f[j] => i = j}

\* C11: the digest digest_xml_sha1 returns is the digest of the same records in
\* every other order of insertion, and is 20 zero bytes when log is empty.
C11_DigestIgnoresOrder ==
    (ret.op = "digest_xml_sha1" /\ ~ret.raised) =>
        /\ \A f \in Orders(Len(db.log)) :
              LET log == [i \in 1..Len(db.log) |-> db.log[f[i]]]
                  other == digest_xml_sha1([db EXCEPT !.log = log], ret.args[1])
              IN  other.ok /\ other.v = ret.value
        /\ db.log = <<>> => ret.value = [i \in 1..20 |-> 0]

\* digest_xml_sha1 has returned ..03 over a log that holds the release of hash
\* ..02 before the release of hash ..01
C11_Witness ==
    /\ ret.op = "digest_xml_sha1" /\ ~ret.raised
    /\ Len(db.log) = 2
    /\ db.log[1].xml_sha1 = Some(Blob(20, 2))
    /\ db.log[2].xml_sha1 = Some(Blob(20, 1))
    /\ ret.value = Blob(20, 3)

\* C12: no two records of log share an xml_sha1, and no two share an xml_sha256.
C12_DigestsUnique ==
    \A i, j \in 1..Len(db.log) :
        i # j => /\ db.log[i].xml_sha1 # db.log[j].xml_sha1
                 /\ db.log[i].xml_sha256 # db.log[j].xml_sha256

\* a poll_fs has failed over a range that holds a release repeating the SHA256
\* of the one record of log, which is still the one record
C12_Witness ==
    /\ ret.op = "poll_fs" /\ ret.raised
    /\ gitLog = <<1, 2, 5>>
    /\ Pointer("head") = 2
    /\ Len(db.log) = 1

\* C13: a list_handles that succeeds at time clock leaves no row of zavod with
\* last_seen < clock - 24h, whatever the table held before, and leaves a row
\* with last_seen = clock for every file of the page.
C13_ZavodPurgesStale ==
    [][(/\ ret'.op = "zavod.list_handles" /\ ~ret'.raised
        /\ <<db, ret, handles>>' # <<db, ret, handles>>)
       => /\ \A i \in 1..Len(db'.zavod) : ~(db'.zavod[i].last_seen < clock - 24 * 3600)
          /\ \A f \in zavod_dir : \E i \in 1..Len(db'.zavod) :
                db'.zavod[i].zip_fname = f /\ db'.zavod[i].last_seen = clock]_vars

\* list_handles has listed a file once; more than 24 hours later its row is in
\* the table and the page does not list the file, while it lists another
C13_Witness ==
    /\ ret.op = "zavod.list_handles" /\ ~ret.raised
    /\ \E i \in 1..Len(db.zavod) :
          /\ db.zavod[i].zip_fname \notin zavod_dir
          /\ clock - db.zavod[i].last_seen > 24 * 3600
          /\ \E n \in 1..Len(ret.value) : ret.value[n][1] = db.zavod[i].zip_fname
    /\ zavod_dir # {}

\* C14: with one indexer, in every committed state each commit 1..head of HEAD
\* that has a body has exactly one record in log, a commit without a body has
\* none and log has no other record; log100 has one row for each commit
\* 1..main100 of BRANCH_100; and no step changes or removes a row that log or
\* log100 already holds: the tables only grow at their end.
C14_RecordsCreatedOnce ==
    /\ [](LET h == Pointer("head")
              withBody == {i \in 1..h : gitLog[i] # 1}
          IN  /\ \A i \in withBody :
                    Cardinality({k \in 1..Len(db.log) :
                        db.log[k].xml_sha1 = Some(XmlSha1Of[gitLog[i]])}) = 1
              /\ \A k \in 1..Len(db.log) : \E i \in withBody :
                    db.log[k].xml_sha1 = Some(XmlSha1Of[gitLog[i]])
              /\ \A i, j \in withBody : i # j => XmlSha1Of[gitLog[i]] # XmlSha1Of[gitLog[j]]
              /\ Len(db.log100) = Pointer("main100"))
    /\ [][/\ Len(db'.log) >= Len(db.log)
          /\ \A k \in 1..Len(db.log) : db'.log[k] = db.log[k]
          /\ Len(db'.log100) >= Len(db.log100)
          /\ \A k \in 1..Len(db.log100) : db'.log100[k] = db.log100[k]]_vars

\* the store is synced to the tips of a HEAD that holds a release between two
\* commits without a body, and of a BRANCH_100 of two commits
C14_Witness ==
    /\ gitLog = <<1, 2, 1>> /\ Pointer("head") = 3 /\ Len(db.log) = 1
    /\ Len(git100) = 2 /\ Pointer("main100") = 2 /\ Len(db.log100) = 2

\* the bodies of CommitBodies with a line that is no timestamp line, no digest
\* line and not the sentinel
BadBodies == {6, 7}

\* C15: a poll_fs transaction raises and leaves the store as it found it when
\* the range of HEAD it syncs holds a commit with a malformed line, when the
\* git log of HEAD exits non-zero, and when the git log of BRANCH_100 exits
\* non-zero; and every poll_fs step that raises leaves the store unchanged.
C15_FailedSyncChangesNothing ==
    /\ [](\A c \in DOMAIN pc : pc[c] = "l27" =>
            \A rc \in GitLogExits :
                LET r == poll_fs(db, git_head[c][1], git_100[c][1], rc[1], rc[2])
                    bad == \E i \in (Pointer("head") + 1)..git_head[c][1] : gitLog[i] \in BadBodies
                    runsHead == db.head # git_head[c]
                    runs100 == db.main100 # git_100[c]
                IN  (bad \/ (runsHead /\ rc[1] # 0) \/ (runs100 /\ rc[2] # 0))
                        => (r.raised /\ r.db = db))
    /\ [][(ret'.op = "poll_fs" /\ ret'.raised /\ ret' # ret) => db' = db]_vars

\* a poll_fs has failed with a RuntimeError although the only commit of its
\* range is a well-formed release: git log has exited non-zero
C15_Witness ==
    /\ ret.op = "poll_fs" /\ ret.raised /\ ret.value = "RuntimeError"
    /\ gitLog = <<1, 1, 2>> /\ Pointer("head") = 2 /\ db.log = <<>>

\* C16 as stated: when the sync of HEAD succeeds and the sync of BRANCH_100
\* then fails, the records and the pointer of HEAD stay committed.
C16_BranchesIndependent ==
    \A c \in DOMAIN pc : pc[c] = "l27" =>
        \A rc \in GitLogExits :
            LET hd == PollHead([db |-> db, raised |-> FALSE], git_head[c][1], rc[1])
                r == poll_fs(db, git_head[c][1], git_100[c][1], rc[1], rc[2])
            IN  ~hd.raised => (r.db.head = hd.db.head /\ r.db.log = hd.db.log)

\* C16: poll_fs syncs both branches in one transaction: a poll_fs step either
\* stores both tips it resolved and returns, or raises and leaves the whole
\* store as it was; when the sync of HEAD succeeds and the sync of BRANCH_100
\* then fails, the records and the pointer of HEAD are rolled back with it.
C16_OneTransactionForBoth ==
    /\ [](\A c \in DOMAIN pc : pc[c] = "l27" =>
            \A rc \in GitLogExits :
                LET hd == PollHead([db |-> db, raised |-> FALSE], git_head[c][1], rc[1])
                    r == poll_fs(db, git_head[c][1], git_100[c][1], rc[1], rc[2])
                IN  (~hd.raised /\ r.raised) => r.db = db)
    /\ [][\A c \in DOMAIN pc : (pc[c] = "l27" /\ pc'[c] = "idle") =>
            \/ ret'.raised /\ db' = db
            \/ ~ret'.raised /\ db'.head = <<git_head[c][1]>> /\ db'.main100 = <<git_100[c][1]>>]_vars

\* a poll_fs that had a well-formed release of HEAD and a commit of BRANCH_100
\* to sync has raised, and the store holds neither the release nor a new pointer
C16_Witness ==
    /\ ret.op = "poll_fs" /\ ret.raised /\ ret.value = "RuntimeError"
    /\ gitLog = <<1, 2>> /\ Len(git100) = 2
    /\ Pointer("head") = 1 /\ Pointer("main100") = 1
    /\ db.log = <<>> /\ Len(db.log100) = 1

\* the che row holds the validators of the file the server holds now and no
\* digest, and the object sends these validators: a fetch_xml_and_sig has
\* committed them and has not reached its second transaction
Lost ==
    /\ db.che[1].xml_sha256 = None
    /\ db.che[1].etag = CheVersions[che_file].etag
    /\ che = che_init(db)

\* C17: once a fetch_xml_and_sig of DonorChe has committed the validators of
\* the file the server holds and has failed before its second transaction, then
\* for as long as the server holds that file, also across a restart of the
\* process: every list_handles that gets an answer returns the empty list, the
\* caller holds no response to fetch, and the che row keeps a NULL xml_sha256.
C17_LostPayloadNeverReoffered ==
    /\ [](Lost => handles.che = {})
    /\ [][(Lost /\ che_file' = che_file) =>
            /\ Lost'
            /\ (ret'.op = "che.list_handles" /\ ~ret'.raised) => ret'.value = <<>>]_vars

\* after a fetch that committed the validators and left no digest, a
\* list_handles has sent them and has got 304
C17_Witness ==
    /\ Lost
    /\ ret.op = "che.list_handles" /\ ~ret.raised /\ ret.value = <<>>
    /\ ret.args[2] = CheVersions[che_file].etag

\* the rows of a zavod table for a file name
RowsOf(table, f) == {table[i] : i \in {k \in 1..Len(table) : table[k].zip_fname = f}}

\* C18: in a step that is not a fetch_xml_and_sig of DonorZavod, a row that
\* stays in zavod keeps its fetched flag, its xml_sha256 and its zip_size, and
\* a row that appears has fetched = 0 and a NULL xml_sha256; a fetch_xml_and_sig
\* adds no row, changes no row but that of the file name of its handle, and
\* changes that row only to fetched = 1 with a digest.
C18_OnlyFetchSetsFetched ==
    [][\A f \in DOMAIN ZipFiles :
          \A new \in RowsOf(db'.zavod, f) :
              \/ new \in RowsOf(db.zavod, f)
              \/ /\ RowsOf(db.zavod, f) = {}
                 /\ ret'.op = "zavod.list_handles"
                 /\ new.fetched = 0 /\ new.xml_sha256 = None
              \/ /\ ret'.op = "zavod.list_handles"
                 /\ \E old \in RowsOf(db.zavod, f) : new = [old EXCEPT !.last_seen = clock]
              \/ /\ ret'.op = "zavod.fetch_xml_and_sig" /\ ~ret'.raised
                 /\ f = ret'.args[1][1]
                 /\ new.fetched = 1 /\ new.xml_sha256 # None
                 /\ \E old \in RowsOf(db.zavod, f) :
                       new = [old EXCEPT !.fetched = 1, !.xml_sha256 = new.xml_sha256]]_vars

\* a list_handles, run after the clock has advanced, has stamped a row that
\* holds fetched = 1 and a digest, and has left both
C18_Witness ==
    /\ ret.op = "zavod.list_handles" /\ ~ret.raised /\ clock > 0
    /\ \E i \in 1..Len(db.zavod) :
          /\ db.zavod[i].fetched = 1 /\ db.zavod[i].xml_sha256 # None
          /\ db.zavod[i].last_seen = clock

\* C19: whatever the table holds, each handle a list_handles would return now
\* carries for its file name the size the page lists for it now, and the whole
\* file the server holds under that name passes the size check of
\* fetch_xml_and_sig called with the handle.
C19_HandleCarriesListedSize ==
    \A limit \in Limits :
        LET r == zavod_list_handles(db, findall(zavod_dir, zavod_files), clock, limit)
        IN  \A n \in 1..Len(r.value) :
                LET handle == r.value[n]
                    file == zavod_files[handle[1]]
                IN  handle[1] \in zavod_dir =>
                        /\ handle[2] = DecVal(file.zip_size)
                        /\ ~zavod_fetch_xml_and_sig(r.db, handle,
                                Some([bytes |-> file.bytes, xml |-> file.xml])).raised

\* C20: a dumps_since called with a negative count raises and runs no query.
C20_DumpsSinceRejectsNegativeCount ==
    (ret.op = "dumps_since" /\ ret.args.count < 0) => (ret.raised /\ ~ret.queried)

====
